---- MODULE Spec2Model ----
(***************************************************************************)
(* Model of script.py: the Remote Settings "ai-window-prompts" updater.    *)
(*                                                                         *)
(* Spec   : sync_collection run repeatedly against one remote collection   *)
(*          (records + review status), each remote call one step.          *)
(* SpecId : the identifier derivation of get_item applied to bounded       *)
(*          (feature, model, version-directory) triples.                   *)
(* SpecMain : one run of main(): connection check, clone_repo,             *)
(*          fetch_current_prompts over a bounded prompts tree, then        *)
(*          sync_collection as one step with its return value.             *)
(***************************************************************************)
EXTENDS Integers, Sequences, FiniteSets, TLC

(***************************************************************************)
(* Bounds and value universes                                              *)
(***************************************************************************)
\* longest source_records list handed to sync_collection
MaxLen == 2
\* longest feature name, model name and version directory name
MaxName == 3

\* record ids of the collection, in the order get_records lists them
IdSeq == <<"test-1", "test-2">>
IDS == {IdSeq[k] : k \in DOMAIN IdSeq}
\* contents of the remaining fields of a record
DATA == {"foo", "new"}
\* revision stamp the server assigns on a write
ServerStamp == 123
\* a revision stamp a desired record may carry (differs from the server's)
StaleStamp == ServerStamp + 1

ENVIRONMENTS == {"local", "dev", "stage", "prod"}
STATUSES == {"signed", "work-in-progress", "to-review", "to-sign"}

(***************************************************************************)
(* Records are Python dicts: functions from field names to values.  A      *)
(* record without revision stamp simply has no "last_modified" field.      *)
(***************************************************************************)
Bare(i, d) == [id |-> i, data |-> d]
Stamped(i, d, l) == [id |-> i, data |-> d, last_modified |-> l]

\* records a caller can pass as desired state
SourceRecord ==
    {Bare(i, d) : i \in IDS, d \in DATA}
        \cup {Stamped(i, d, StaleStamp) : i \in IDS, d \in DATA}

\* records the server holds: always stamped by the server
ServerRecord == {Stamped(i, d, ServerStamp) : i \in IDS, d \in DATA}

SeqsUpTo(S, n) == UNION {[1..k -> S] : k \in 0..n}

\* contents a collection can have: at most one record per id
Collections ==
    {C \in SUBSET ServerRecord : \A a \in C, b \in C : a.id = b.id => a = b}

\* dict.pop(key, None): the dict without that key
Pop(r, key) == [f \in DOMAIN r \ {key} |-> r[f]]

IdsOf(s) == {s[k].id : k \in DOMAIN s}

(***************************************************************************)
(* kinto_http.utils.collection_diff(src, dest), as sync_collection uses    *)
(* it: records are matched by id, each dest record is matched at most      *)
(* once, content is compared ignoring last_modified.  The results refer    *)
(* to the very dicts of source_records (Python references), so to_create   *)
(* and to_update carry positions in source_records.                        *)
(***************************************************************************)
\* mutant: the comparison does not ignore last_modified
records_equal_Strict(a, b) == a = b

records_equal(a, b) == Pop(a, "last_modified") = Pop(b, "last_modified")

\* the dest record with the given id
ById(dest, i) == dest[CHOOSE k \in DOMAIN dest : dest[k].id = i]

\* positions of src whose id is not matched by an earlier position
FirstOfId(src, k) == \A m \in 1..(k - 1) : src[m].id # src[k].id

Matched(src, dest, k) == src[k].id \in IdsOf(dest) /\ FirstOfId(src, k)

\* the positions 1..n that are in S, in increasing order
SelectIdx(n, S) ==
    LET F[k \in 0..n] ==
            IF k = 0 THEN <<>>
            ELSE IF k \in S THEN Append(F[k - 1], k) ELSE F[k - 1]
    IN  F[n]

collection_diff(src, dest) ==
    LET creates == SelectIdx(Len(src), {k \in DOMAIN src : ~Matched(src, dest, k)})
        updates == SelectIdx(Len(src),
                       {k \in DOMAIN src :
                            /\ Matched(src, dest, k)
                            /\ ~records_equal(ById(dest, src[k].id), src[k])})
        deletes == SelectIdx(Len(dest),
                       {k \in DOMAIN dest : dest[k].id \notin IdsOf(src)})
    IN  [to_create |-> creates,
         to_update |-> [k \in DOMAIN updates |->
                            <<ById(dest, src[updates[k]].id), updates[k]>>],
         to_delete |-> [k \in DOMAIN deletes |-> dest[deletes[k]]]]

(***************************************************************************)
(* The remote collection behind the kinto_http client                      *)
(***************************************************************************)
\* client.get_records(): the collection's records as a list
get_records(C) ==
    LET present == SelectIdx(Len(IdSeq),
                             {k \in DOMAIN IdSeq : \E r \in C : r.id = IdSeq[k]})
    IN  [k \in DOMAIN present |-> CHOOSE r \in C : r.id = IdSeq[present[k]]]

\* does the server accept the operation on collection C ?
\* (create is a PUT with If-None-Match, a delete of a missing id is a 404)
Accepts(C, op) ==
    CASE op.op = "create" -> ~\E r \in C : r.id = op.data.id
      [] op.op = "update" -> TRUE
      [] op.op = "delete" -> \E r \in C : r.id = op.id

\* the collection after the server has applied one accepted operation
Apply(C, op) ==
    CASE op.op = "create" ->
            C \cup {Stamped(op.data.id, op.data.data, ServerStamp)}
      [] op.op = "update" ->
            {r \in C : r.id # op.data.id}
                \cup {Stamped(op.data.id, op.data.data, ServerStamp)}
      [] op.op = "delete" -> {r \in C : r.id # op.id}

\* the collection after the first j operations of ops
ApplyPrefix(C, ops, j) ==
    LET F[k \in 0..j] == IF k = 0 THEN C ELSE Apply(F[k - 1], ops[k])
    IN  F[j]

\* the server accepts each of the first j operations in turn
AcceptsPrefix(C, ops, j) ==
    \A k \in 1..j : Accepts(ApplyPrefix(C, ops, k - 1), ops[k])

(***************************************************************************)
(* State                                                                   *)
(***************************************************************************)
VARIABLES
    ENVIRONMENT,      \* script.ENVIRONMENT, fixed for the process
    server_records,   \* the collection's records on the server
    server_status,    \* the collection's review status on the server
    pc,               \* position of sync_collection
    source_records,   \* argument of the current (or last) call
    dest_records,     \* what get_records returned in this call
    to_create,        \* diff: positions in source_records
    to_update,        \* diff: <<old record, position in source_records>>
    to_delete,        \* diff: dest records
    calls,            \* remote calls of this call: [op, ok], in order
    submitted,        \* operations handed to the batch in this call
    result,           \* <<return value>> of this call, <<>> while it runs
    records0,         \* server_records when this call began
    status0,          \* server_status when this call began
    committed,        \* {server_records right after this call's batch commit}
    last_run,         \* how the previous call ended, "none" before the first
    external,         \* another writer changed the records since the previous call
    review_owed,      \* a committed batch awaits the review request that failed
    triple,           \* get_item's inputs: feature, model, version directory
    item              \* the record get_item returned, <<>> before it ran

VARIABLES
    main_pc,          \* the stage main() is about to run, "exit" once it has ended
    stages,           \* the stages main() has invoked, in order
    repo,             \* what a clone delivers: [prompts_dir, files]
    tmp_dir,          \* does the directory made by tempfile.mkdtemp exist ?
    prompts,          \* records fetch_current_prompts returned, by model file
    main_result,      \* <<return value>> of main(), <<>> if it has not returned
    raised            \* the exception that left main(), "none" if none did

mainvars == <<main_pc, stages, repo, tmp_dir, prompts, main_result, raised>>

vars == <<ENVIRONMENT, server_records, server_status, pc, source_records,
          dest_records, to_create, to_update, to_delete, calls, submitted,
          result, records0, status0, committed, last_run, external,
          review_owed, triple, item, mainvars>>

NoResult == <<>>
NotCommitted == {}

Call(op, ok) == [op |-> op, ok |-> ok]

\* the payloads the three loops of the batch hand over, in order
CreateOp(src, k) == [op |-> "create", data |-> src[k]]
\* mutant: the update is sent without record.pop("last_modified", None)
UpdateOp_NoPop(src, k) == [op |-> "update", data |-> src[k]]
UpdateOp(src, k) == [op |-> "update", data |-> Pop(src[k], "last_modified")]
\* mutant: the delete is handed the whole record, not only its id
DeleteOp_WholeRecord(r) == [op |-> "delete", id |-> r.id, data |-> r]
DeleteOp(r) == [op |-> "delete", id |-> r.id]

\* mutant: the loop over to_delete is missing
BatchOps_NoDeletes(src, tc, tu, td) ==
    [k \in DOMAIN tc |-> CreateOp(src, tc[k])]
        \o [k \in DOMAIN tu |-> UpdateOp(src, tu[k][2])]

\* mutant: the update loop sends the old record of each pair
BatchOps_UpdatesOld(src, tc, tu, td) ==
    [k \in DOMAIN tc |-> CreateOp(src, tc[k])]
        \o [k \in DOMAIN tu |->
                [op |-> "update", data |-> Pop(tu[k][1], "last_modified")]]
        \o [k \in DOMAIN td |-> DeleteOp(td[k])]

BatchOps(src, tc, tu, td) ==
    [k \in DOMAIN tc |-> CreateOp(src, tc[k])]
        \o [k \in DOMAIN tu |-> UpdateOp(src, tu[k][2])]
        \o [k \in DOMAIN td |-> DeleteOp(td[k])]

\* source_records after the update loop has reached its first m pairs:
\* record.pop("last_modified", None) acts on the caller's own dicts
PopUpdated(src, tu, m) ==
    [k \in DOMAIN src |->
        IF \E u \in 1..m : tu[u][2] = k THEN Pop(src[k], "last_modified")
        ELSE src[k]]

(***************************************************************************)
(* The prompts tree of a clone: prompts/<feature>/<version>/<stem><suffix> *)
(***************************************************************************)
FEATURES == {"chat"}
VERSIONS == {"v1", "v2"}
STEMS == {"claude", "gpt"}
SUFFIXES == {".json", ".md", ".txt"}

File == [feature : FEATURES, version : VERSIONS, stem : STEMS, suffix : SUFFIXES]

\* a model of a feature/version directory, named by its base name
Model == [feature : FEATURES, version : VERSIONS, stem : STEMS]
ModelOf(f) == [feature |-> f.feature, version |-> f.version, stem |-> f.stem]

\* a clone either has no prompts directory or has one with some files
Repos ==
    {[prompts_dir |-> FALSE, files |-> {}]}
        \cup {[prompts_dir |-> TRUE, files |-> F] : F \in SUBSET File}

NoPrompts == [m \in Model |-> 0]

\* main() is not running
MainOff ==
    /\ main_pc = "off"
    /\ stages = <<>>
    /\ repo = [prompts_dir |-> FALSE, files |-> {}]
    /\ tmp_dir = FALSE
    /\ prompts = NoPrompts
    /\ main_result = NoResult
    /\ raised = "none"

Init ==
    /\ ENVIRONMENT \in ENVIRONMENTS
    /\ server_records \in Collections
    /\ server_status \in STATUSES
    /\ pc = "idle"
    /\ source_records = <<>>
    /\ dest_records = <<>>
    /\ to_create = <<>>
    /\ to_update = <<>>
    /\ to_delete = <<>>
    /\ calls = <<>>
    /\ submitted = <<>>
    /\ result = NoResult
    /\ records0 = server_records
    /\ status0 = server_status
    /\ committed = NotCommitted
    /\ last_run = "none"
    /\ external = FALSE
    /\ review_owed = FALSE
    /\ triple = <<>>
    /\ item = <<>>
    /\ MainOff

\* what a call starts from: nothing fetched, computed or sent yet
Fresh ==
    /\ pc' = "get_records"
    /\ dest_records' = <<>>
    /\ to_create' = <<>>
    /\ to_update' = <<>>
    /\ to_delete' = <<>>
    /\ calls' = <<>>
    /\ submitted' = <<>>
    /\ result' = NoResult
    /\ records0' = server_records
    /\ status0' = server_status
    /\ committed' = NotCommitted

\* sync_collection(client, source_records) is entered, with any desired
\* records (a run on other records after an earlier run behaves as this
\* first run does from the server state it finds)
Enter ==
    /\ pc = "idle"
    /\ last_run = "none"
    /\ source_records' \in SeqsUpTo(SourceRecord, MaxLen)
    /\ Fresh
    /\ UNCHANGED <<mainvars, triple, item, review_owed,
                   ENVIRONMENT, server_records, server_status, last_run, external>>

\* the job runs again: sync_collection is entered with the records of the
\* previous run
ReEnter ==
    /\ pc = "idle"
    /\ last_run # "none"
    /\ Fresh
    /\ UNCHANGED <<mainvars, triple, item, review_owed,
                   ENVIRONMENT, server_records, server_status, source_records,
                   last_run, external>>

\* mutant: the KintoException of get_records is swallowed and the call goes
\* on as if the collection were empty
GetRecordsFail_Swallowed ==
    /\ pc = "get_records"
    /\ calls' = Append(calls, Call("get_records", FALSE))
    /\ LET diff == collection_diff(source_records, <<>>)
       IN  /\ to_create' = diff.to_create
           /\ to_update' = diff.to_update
           /\ to_delete' = diff.to_delete
    /\ pc' = "batch"
    /\ UNCHANGED <<mainvars, triple, item, review_owed,
                   ENVIRONMENT, server_records, server_status, source_records,
                   dest_records, submitted, result, records0, status0, committed,
                   last_run, external>>

\* client.get_records() raises KintoException: return 1
GetRecordsFail ==
    /\ pc = "get_records"
    /\ calls' = Append(calls, Call("get_records", FALSE))
    /\ result' = <<1>>
    /\ pc' = "done"
    /\ UNCHANGED <<mainvars, triple, item, review_owed,
                   ENVIRONMENT, server_records, server_status, source_records,
                   dest_records, to_create, to_update, to_delete, submitted,
                   records0, status0, committed, last_run, external>>

\* mutant: no early return on an empty diff
GetRecordsOk_NoEarlyReturn ==
    /\ pc = "get_records"
    /\ LET dest == get_records(server_records)
           diff == collection_diff(source_records, dest)
       IN  /\ dest_records' = dest
           /\ to_create' = diff.to_create
           /\ to_update' = diff.to_update
           /\ to_delete' = diff.to_delete
    /\ pc' = "batch"
    /\ calls' = Append(calls, Call("get_records", TRUE))
    /\ UNCHANGED <<mainvars, triple, item, review_owed,
                   ENVIRONMENT, server_records, server_status, source_records,
                   submitted, result, records0, status0, committed, last_run,
                   external>>

\* mutant: the arguments of collection_diff are swapped
GetRecordsOk_Swapped ==
    /\ pc = "get_records"
    /\ LET dest == get_records(server_records)
           diff == collection_diff(dest, source_records)
           has_changes == \/ diff.to_create # <<>>
                          \/ diff.to_update # <<>>
                          \/ diff.to_delete # <<>>
       IN  /\ dest_records' = dest
           /\ to_create' = diff.to_create
           /\ to_update' = diff.to_update
           /\ to_delete' = diff.to_delete
           /\ IF has_changes
              THEN pc' = "batch" /\ result' = NoResult
              ELSE pc' = "done" /\ result' = <<0>>
    /\ calls' = Append(calls, Call("get_records", TRUE))
    /\ UNCHANGED <<mainvars, triple, item, review_owed,
                   ENVIRONMENT, server_records, server_status,
                   source_records, submitted, records0, status0, committed,
                   last_run, external>>

\* mutant: an empty diff over a collection with pending changes goes on to
\* the review request
GetRecordsOk_ReviewsPending ==
    /\ pc = "get_records"
    /\ LET dest == get_records(server_records)
           diff == collection_diff(source_records, dest)
           has_changes == \/ diff.to_create # <<>>
                          \/ diff.to_update # <<>>
                          \/ diff.to_delete # <<>>
       IN  /\ dest_records' = dest
           /\ to_create' = diff.to_create
           /\ to_update' = diff.to_update
           /\ to_delete' = diff.to_delete
           /\ IF has_changes
              THEN pc' = "batch" /\ result' = NoResult
              ELSE IF server_status = "work-in-progress"
                   THEN pc' = "request_review" /\ result' = NoResult
                   ELSE pc' = "done" /\ result' = <<0>>
    /\ calls' = Append(calls, Call("get_records", TRUE))
    /\ UNCHANGED <<mainvars, triple, item, review_owed,
                   ENVIRONMENT, server_records, server_status,
                   source_records, submitted, records0, status0, committed,
                   last_run, external>>

\* client.get_records() returns; the diff is computed; an empty diff returns 0
GetRecordsOk ==
    /\ pc = "get_records"
    /\ LET dest == get_records(server_records)
           diff == collection_diff(source_records, dest)
           has_changes == \/ diff.to_create # <<>>
                          \/ diff.to_update # <<>>
                          \/ diff.to_delete # <<>>
       IN  /\ dest_records' = dest
           /\ to_create' = diff.to_create
           /\ to_update' = diff.to_update
           /\ to_delete' = diff.to_delete
           /\ IF has_changes
              THEN pc' = "batch" /\ result' = NoResult
              ELSE pc' = "done" /\ result' = <<0>>
    /\ calls' = Append(calls, Call("get_records", TRUE))
    /\ UNCHANGED <<mainvars, triple, item, review_owed,
                   ENVIRONMENT, server_records, server_status, source_records,
                   submitted, records0, status0, committed, last_run, external>>

\* how many update pairs the loop has reached when operation number at raises
UpdatesReached(tc, tu, at) ==
    IF at <= Len(tc) THEN 0
    ELSE IF at - Len(tc) >= Len(tu) THEN Len(tu)
    ELSE at - Len(tc)

\* the batch is filled and committed on scope exit without error
BatchOk ==
    /\ pc = "batch"
    /\ LET ops == BatchOps(source_records, to_create, to_update, to_delete)
       IN  /\ AcceptsPrefix(server_records, ops, Len(ops))
           /\ server_records' = ApplyPrefix(server_records, ops, Len(ops))
           /\ submitted' = ops
    /\ server_status' = "work-in-progress"
    /\ committed' = {server_records'}
    /\ source_records' = PopUpdated(source_records, to_update, Len(to_update))
    /\ calls' = Append(calls, Call("batch", TRUE))
    /\ pc' = "request_review"
    /\ UNCHANGED <<mainvars, triple, item, review_owed,
                   ENVIRONMENT, dest_records, to_create, to_update, to_delete,
                   result, records0, status0, last_run, external>>

\* mutant: a failed batch is logged and the call goes on to the review
BatchFail_GoesOn ==
    /\ pc = "batch"
    /\ calls' = Append(calls, Call("batch", FALSE))
    /\ pc' = "request_review"
    /\ UNCHANGED <<mainvars, triple, item, review_owed,
                   ENVIRONMENT, server_records, server_status, source_records,
                   dest_records, to_create, to_update, to_delete, submitted,
                   result, records0, status0, committed, last_run, external>>

\* KintoException inside the with block: at batch begin (at = 0), when
\* operation number at is handed over (1..n), or at the commit on scope exit
\* (at = n + 1), where the server may have applied a prefix of the operations
BatchFail ==
    /\ pc = "batch"
    /\ LET ops == BatchOps(source_records, to_create, to_update, to_delete)
           n == Len(ops)
       IN  \E at \in 0..(n + 1) :
             /\ submitted' = SubSeq(ops, 1, IF at = 0 THEN 0 ELSE at - 1)
             /\ source_records' =
                    PopUpdated(source_records, to_update,
                               UpdatesReached(to_create, to_update, at))
             /\ IF at = n + 1
                THEN \E j \in 0..(n - 1) :
                        /\ AcceptsPrefix(server_records, ops, j)
                        /\ server_records' = ApplyPrefix(server_records, ops, j)
                        /\ server_status' =
                              IF j > 0 THEN "work-in-progress" ELSE server_status
                ELSE UNCHANGED <<server_records, server_status>>
    /\ calls' = Append(calls, Call("batch", FALSE))
    /\ result' = <<1>>
    /\ pc' = "done"
    /\ UNCHANGED <<mainvars, triple, item, review_owed,
                   ENVIRONMENT, dest_records, to_create, to_update, to_delete,
                   records0, status0, committed, last_run, external>>

\* mutant: the self-approval branch is taken on stage as well
RequestReviewOk_StageToo ==
    /\ pc = "request_review"
    /\ server_status' = "to-review"
    /\ calls' = Append(calls, Call("request_review", TRUE))
    /\ IF ENVIRONMENT \in {"dev", "stage"}
       THEN pc' = "approve_changes" /\ result' = NoResult
       ELSE pc' = "done" /\ result' = <<0>>
    /\ UNCHANGED <<mainvars, triple, item, review_owed,
                   ENVIRONMENT, server_records, source_records, dest_records,
                   to_create, to_update, to_delete, submitted, records0, status0,
                   committed, last_run, external>>

\* mutant: request_review is called before the branch and again inside it
RequestReviewOk_Twice ==
    /\ pc = "request_review"
    /\ server_status' = "to-review"
    /\ calls' = calls \o <<Call("request_review", TRUE), Call("request_review", TRUE)>>
    /\ IF ENVIRONMENT = "dev"
       THEN pc' = "approve_changes" /\ result' = NoResult
       ELSE pc' = "done" /\ result' = <<0>>
    /\ UNCHANGED <<mainvars, triple, item, review_owed,
                   ENVIRONMENT, server_records, source_records, dest_records,
                   to_create, to_update, to_delete, submitted, records0, status0,
                   committed, last_run, external>>

\* client.request_review(message="r?") returns; outside dev that is all
RequestReviewOk ==
    /\ pc = "request_review"
    /\ server_status' = "to-review"
    /\ calls' = Append(calls, Call("request_review", TRUE))
    /\ IF ENVIRONMENT = "dev"
       THEN pc' = "approve_changes" /\ result' = NoResult
       ELSE pc' = "done" /\ result' = <<0>>
    /\ UNCHANGED <<mainvars, triple, item, review_owed,
                   ENVIRONMENT, server_records, source_records, dest_records,
                   to_create, to_update, to_delete, submitted, records0, status0,
                   committed, last_run, external>>

\* mutant: a failed review request undoes the batch
RequestReviewFail_RollsBack ==
    /\ pc = "request_review"
    /\ calls' = Append(calls, Call("request_review", FALSE))
    /\ server_records' = records0
    /\ result' = <<1>>
    /\ pc' = "done"
    /\ UNCHANGED <<mainvars, triple, item, review_owed,
                   ENVIRONMENT, server_status, source_records, dest_records,
                   to_create, to_update, to_delete, submitted, records0, status0,
                   committed, last_run, external>>

\* client.request_review raises KintoException: return 1
RequestReviewFail ==
    /\ pc = "request_review"
    /\ calls' = Append(calls, Call("request_review", FALSE))
    /\ result' = <<1>>
    /\ pc' = "done"
    /\ UNCHANGED <<mainvars, triple, item, review_owed,
                   ENVIRONMENT, server_records, server_status, source_records,
                   dest_records, to_create, to_update, to_delete, submitted,
                   records0, status0, committed, last_run, external>>

\* dev only: client.approve_changes() returns
ApproveChangesOk ==
    /\ pc = "approve_changes"
    /\ server_status' = "to-sign"
    /\ calls' = Append(calls, Call("approve_changes", TRUE))
    /\ result' = <<0>>
    /\ pc' = "done"
    /\ UNCHANGED <<mainvars, triple, item, review_owed,
                   ENVIRONMENT, server_records, source_records, dest_records,
                   to_create, to_update, to_delete, submitted, records0, status0,
                   committed, last_run, external>>

\* mutant: a failed approval is logged but the call still returns 0
ApproveChangesFail_ReturnsZero ==
    /\ pc = "approve_changes"
    /\ calls' = Append(calls, Call("approve_changes", FALSE))
    /\ result' = <<0>>
    /\ pc' = "done"
    /\ UNCHANGED <<mainvars, triple, item, review_owed,
                   ENVIRONMENT, server_records, server_status, source_records,
                   dest_records, to_create, to_update, to_delete, submitted,
                   records0, status0, committed, last_run, external>>

\* dev only: client.approve_changes() raises KintoException: return 1
ApproveChangesFail ==
    /\ pc = "approve_changes"
    /\ calls' = Append(calls, Call("approve_changes", FALSE))
    /\ result' = <<1>>
    /\ pc' = "done"
    /\ UNCHANGED <<mainvars, triple, item, review_owed,
                   ENVIRONMENT, server_records, server_status, source_records,
                   dest_records, to_create, to_update, to_delete, submitted,
                   records0, status0, committed, last_run, external>>

\* how a finished call ended
Outcome ==
    LET last == calls[Len(calls)]
    IN  IF ~last.ok
        THEN IF last.op = "get_records" THEN "fetch failed"
             ELSE IF last.op = "batch" THEN "batch failed"
             ELSE "review failed"
        ELSE IF last.op = "get_records" THEN "in sync" ELSE "synced"

\* the finished call committed its batch and its request_review raised
ReviewRequestFailed == calls[Len(calls)] = Call("request_review", FALSE)

\* the finished call left the store as it found it: no batch was sent
NoBatch == Len(calls) = 1

\* sync_collection has returned; the job may be run again
Return ==
    /\ pc = "done"
    /\ pc' = "idle"
    /\ last_run' = Outcome
    /\ external' = FALSE
    /\ review_owed' = (ReviewRequestFailed \/ (review_owed /\ NoBatch))
    /\ dest_records' = <<>>
    /\ to_create' = <<>>
    /\ to_update' = <<>>
    /\ to_delete' = <<>>
    /\ calls' = <<>>
    /\ submitted' = <<>>
    /\ records0' = server_records
    /\ status0' = server_status
    /\ committed' = NotCommitted
    /\ result' = NoResult
    /\ UNCHANGED <<mainvars, triple, item,
                   ENVIRONMENT, server_records, server_status, source_records>>

\* between two runs another writer changes the collection's records
ExternalWrite ==
    /\ pc = "idle"
    /\ \E C \in Collections \ {server_records} : server_records' = C
    /\ server_status' = "work-in-progress"
    /\ external' = TRUE
    /\ review_owed' = FALSE
    /\ records0' = server_records'
    /\ status0' = server_status'
    /\ UNCHANGED <<mainvars, triple, item,
                   ENVIRONMENT, pc, source_records, dest_records, to_create,
                   to_update, to_delete, calls, submitted, result, committed,
                   last_run>>

Next ==
    \/ Enter
    \/ ReEnter
    \/ GetRecordsFail
    \/ GetRecordsOk
    \/ BatchOk
    \/ BatchFail
    \/ RequestReviewOk
    \/ RequestReviewFail
    \/ ApproveChangesOk
    \/ ApproveChangesFail
    \/ Return
    \/ ExternalWrite

Spec == Init /\ [][Next]_vars

TypeOK ==
    /\ ENVIRONMENT \in ENVIRONMENTS
    /\ server_records \in Collections
    /\ server_status \in STATUSES
    /\ pc \in {"idle", "get_records", "batch", "request_review",
               "approve_changes", "done"}
    /\ result \in {NoResult, <<0>>, <<1>>}

(***************************************************************************)
(* get_item's identifier.  Names are strings: sequences of characters.     *)
(***************************************************************************)
Chars == {"c", ".", "-"}
\* names begin and end with a letter
Names ==
    {name \in UNION {[1..n -> Chars] : n \in 1..MaxName} :
        name[1] = "c" /\ name[Len(name)] = "c"}
Triples == [feature : Names, model : Names, version_dir : Names]

\* str.replace(".", "-")
replace_dots(name) == [k \in DOMAIN name |-> IF name[k] = "." THEN "-" ELSE name[k]]

\* pathlib's Path.stem: the name up to its last dot, unless that dot is the
\* first or the last character
stem(name) ==
    LET dots == {k \in DOMAIN name : name[k] = "."}
        last == CHOOSE k \in dots : \A m \in dots : m <= k
    IN  IF dots # {} /\ 1 < last /\ last < Len(name)
        THEN SubSeq(name, 1, last - 1)
        ELSE name

\* f"{data['feature']}--{data['model'].replace('.', '-')}--{major_version_dir.stem}"
item_id(feature, model, version_dir) ==
    feature \o <<"-", "-">> \o replace_dots(model) \o <<"-", "-">> \o stem(version_dir)

\* get_item: the metadata of the .json file with the derived id added
get_item(t) ==
    [feature |-> t.feature, model |-> t.model,
     id |-> item_id(t.feature, t.model, t.version_dir)]

InitId ==
    /\ triple \in Triples
    /\ item = <<>>
    /\ ENVIRONMENT = "local"
    /\ server_records = {}
    /\ server_status = "signed"
    /\ pc = "idle"
    /\ source_records = <<>>
    /\ dest_records = <<>>
    /\ to_create = <<>>
    /\ to_update = <<>>
    /\ to_delete = <<>>
    /\ calls = <<>>
    /\ submitted = <<>>
    /\ result = NoResult
    /\ records0 = server_records
    /\ status0 = server_status
    /\ committed = NotCommitted
    /\ last_run = "none"
    /\ external = FALSE
    /\ review_owed = FALSE
    /\ MainOff

\* get_item(major_version_dir, model_name) runs on the files of one model
GetItem ==
    /\ item = <<>>
    /\ item' = get_item(triple)
    /\ UNCHANGED <<mainvars, triple, review_owed,
                   ENVIRONMENT, server_records, server_status, pc,
                   source_records, dest_records, to_create, to_update, to_delete,
                   calls, submitted, result, records0, status0, committed,
                   last_run, external>>

NextId == GetItem

SpecId == InitId /\ [][NextId]_vars

(***************************************************************************)
(* main(): connection check, clone_repo, fetch_current_prompts,            *)
(* sync_collection.  A record of the loader is named by the model whose    *)
(* .json and .md files get_item read; prompts counts the records per       *)
(* model.                                                                  *)
(***************************************************************************)
\* sync_collection is not running
SyncOff ==
    /\ ENVIRONMENT \in ENVIRONMENTS
    /\ server_records = {}
    /\ server_status = "signed"
    /\ pc = "idle"
    /\ source_records = <<>>
    /\ dest_records = <<>>
    /\ to_create = <<>>
    /\ to_update = <<>>
    /\ to_delete = <<>>
    /\ calls = <<>>
    /\ submitted = <<>>
    /\ result = NoResult
    /\ records0 = server_records
    /\ status0 = server_status
    /\ committed = NotCommitted
    /\ last_run = "none"
    /\ external = FALSE
    /\ review_owed = FALSE
    /\ triple = <<>>
    /\ item = <<>>

syncvars == <<ENVIRONMENT, server_records, server_status, pc, source_records,
              dest_records, to_create, to_update, to_delete, calls, submitted,
              result, records0, status0, committed, last_run, external,
              review_owed, triple, item>>

\* the directory entries collect_prompts_and_params calls get_item for:
\* all but those with suffix ".md"
Visited(files) == {f \in files : f.suffix # ".md"}

\* get_item(major_version_dir, f.stem) can open <stem>.json and <stem>.md
Readable(files, f) ==
    /\ [f EXCEPT !.suffix = ".json"] \in files
    /\ [f EXCEPT !.suffix = ".md"] \in files

\* some get_item call of the walk raises (a file of the pair is missing)
CollectRaises(files) == \E f \in Visited(files) : ~Readable(files, f)

\* the items collect_prompts_and_params returns: one per visited entry
collect_prompts_and_params(files) ==
    [m \in Model |-> Cardinality({f \in Visited(files) : ModelOf(f) = m})]

InitMain ==
    /\ main_pc = "server_info"
    /\ stages = <<>>
    /\ repo \in Repos
    /\ tmp_dir = FALSE
    /\ prompts = NoPrompts
    /\ main_result = NoResult
    /\ raised = "none"
    /\ SyncOff

\* remote_settings_client.server_info() returns
ServerInfoOk ==
    /\ main_pc = "server_info"
    /\ stages' = Append(stages, "server_info")
    /\ main_pc' = "clone_repo"
    /\ UNCHANGED <<repo, tmp_dir, prompts, main_result, raised, syncvars>>

\* server_info() raises: main returns 1
ServerInfoFail ==
    /\ main_pc = "server_info"
    /\ stages' = Append(stages, "server_info")
    /\ main_result' = <<1>>
    /\ main_pc' = "exit"
    /\ UNCHANGED <<repo, tmp_dir, prompts, raised, syncvars>>

\* clone_repo makes the temporary directory and clones into it
CloneOk ==
    /\ main_pc = "clone_repo"
    /\ stages' = Append(stages, "clone_repo")
    /\ tmp_dir' = TRUE
    /\ main_pc' = "fetch_current_prompts"
    /\ UNCHANGED <<repo, prompts, main_result, raised, syncvars>>

\* clone_repo makes the temporary directory, fails (no GIT_TOKEN, git
\* error, timeout) and returns "": main returns 1
CloneFail ==
    /\ main_pc = "clone_repo"
    /\ stages' = Append(stages, "clone_repo")
    /\ tmp_dir' = TRUE
    /\ main_result' = <<1>>
    /\ main_pc' = "exit"
    /\ UNCHANGED <<repo, prompts, raised, syncvars>>

\* fetch_current_prompts: no prompts directory, FileNotFoundError is raised
\* before the try block and leaves main
FetchMissingDir ==
    /\ main_pc = "fetch_current_prompts"
    /\ ~repo.prompts_dir
    /\ stages' = Append(stages, "fetch_current_prompts")
    /\ raised' = "FileNotFoundError"
    /\ main_pc' = "exit"
    /\ UNCHANGED <<repo, tmp_dir, prompts, main_result, syncvars>>

\* fetch_current_prompts: collect_prompts_and_params raises; the finally
\* block removes the temporary directory and then reads the unassigned
\* records, so UnboundLocalError leaves main
FetchUnreadable ==
    /\ main_pc = "fetch_current_prompts"
    /\ repo.prompts_dir
    /\ CollectRaises(repo.files)
    /\ stages' = Append(stages, "fetch_current_prompts")
    /\ tmp_dir' = FALSE
    /\ raised' = "UnboundLocalError"
    /\ main_pc' = "exit"
    /\ UNCHANGED <<repo, prompts, main_result, syncvars>>

\* fetch_current_prompts: the records are collected, the finally block
\* removes the temporary directory and returns them
FetchOk ==
    /\ main_pc = "fetch_current_prompts"
    /\ repo.prompts_dir
    /\ ~CollectRaises(repo.files)
    /\ stages' = Append(stages, "fetch_current_prompts")
    /\ prompts' = collect_prompts_and_params(repo.files)
    /\ tmp_dir' = FALSE
    /\ main_pc' = "sync_collection"
    /\ UNCHANGED <<repo, main_result, raised, syncvars>>

\* sync_collection(remote_settings_client, prompts) returns 0 or 1 and
\* main returns that value
SyncStage ==
    /\ main_pc = "sync_collection"
    /\ stages' = Append(stages, "sync_collection")
    /\ \E code \in {0, 1} : main_result' = <<code>>
    /\ main_pc' = "exit"
    /\ UNCHANGED <<repo, tmp_dir, prompts, raised, syncvars>>

NextMain ==
    \/ ServerInfoOk
    \/ ServerInfoFail
    \/ CloneOk
    \/ CloneFail
    \/ FetchMissingDir
    \/ FetchUnreadable
    \/ FetchOk
    \/ SyncStage

SpecMain == InitMain /\ [][NextMain]_vars

(***************************************************************************)
(* Properties of sync_collection                                           *)
(***************************************************************************)
NoDiff == to_create = <<>> /\ to_update = <<>> /\ to_delete = <<>>
Made(k, op, ok) == Len(calls) >= k /\ calls[k] = Call(op, ok)
AllOk == \A k \in DOMAIN calls : calls[k].ok
Untouched == server_records = records0 /\ server_status = status0

\* C1: when get_records fails the call returns 1 at once: get_records is
\* its only remote call, no batch is opened, nothing is submitted, no review
\* call is made, and the server's records and review status are as before.
C1_FetchFailure ==
    Made(1, "get_records", FALSE) =>
        /\ pc = "done"
        /\ result = <<1>>
        /\ calls = <<Call("get_records", FALSE)>>
        /\ submitted = <<>>
        /\ Untouched

\* a fetch failure in a call whose diff would not have been empty
C1_Witness ==
    /\ pc = "done"
    /\ Made(1, "get_records", FALSE)
    /\ source_records # <<>>
    /\ server_records # {}
    /\ IdsOf(source_records) # {r.id : r \in server_records}

\* C2: when the diff is empty the call returns 0 after get_records alone:
\* no batch, no request_review, no approve_changes, and the server's records
\* and review status are as before.
C2_EmptyDiff ==
    (Made(1, "get_records", TRUE) /\ NoDiff) =>
        /\ pc = "done"
        /\ result = <<0>>
        /\ calls = <<Call("get_records", TRUE)>>
        /\ submitted = <<>>
        /\ Untouched

\* an empty diff between non-empty record sets whose stamps differ
C2_Witness ==
    /\ pc = "done"
    /\ Made(1, "get_records", TRUE)
    /\ NoDiff
    /\ Len(source_records) = 2
    /\ \E k \in DOMAIN source_records : "last_modified" \in DOMAIN source_records[k]

\* C3: when the batch fails (at begin, at an operation, or at commit) the
\* call returns 1 and makes no request_review and no approve_changes call.
C3_BatchFailure ==
    Made(2, "batch", FALSE) =>
        /\ pc = "done"
        /\ result = <<1>>
        /\ Len(calls) = 2

\* a batch that failed at commit after the server applied part of it
C3_Witness ==
    /\ pc = "done"
    /\ Made(2, "batch", FALSE)
    /\ Len(submitted) = 2
    /\ server_records # records0

\* C4: when request_review, or in dev approve_changes, fails after the batch
\* was committed, the call returns 1, the server's records are those the
\* batch left (not those from before the call) and the review status is the
\* one from before the failed call.
C4_ReviewFailure ==
    (pc = "done" /\ Len(calls) >= 3 /\ ~calls[Len(calls)].ok) =>
        /\ result = <<1>>
        /\ committed = {server_records}
        /\ server_records # records0
        /\ server_status =
              IF Len(calls) = 3 THEN "work-in-progress" ELSE "to-review"

\* dev: the approval failed after the review request went through
C4_Witness ==
    /\ pc = "done"
    /\ Made(4, "approve_changes", FALSE)
    /\ server_records # records0

\* C5: after a committed batch request_review is the next call; in dev a
\* successful request_review is followed by approve_changes and a successful
\* call leaves the collection approved ("to-sign"); in local, stage and prod
\* approve_changes is never called and a successful call leaves the
\* collection in review ("to-review").
C5_EnvironmentGating ==
    /\ (Len(calls) = 2 /\ calls[2].ok) => pc = "request_review"
    /\ Len(calls) >= 3 => calls[3].op = "request_review"
    /\ IF ENVIRONMENT = "dev"
       THEN /\ (Len(calls) = 3 /\ calls[3].ok) => pc = "approve_changes"
            /\ (pc = "done" /\ result = <<0>> /\ Len(calls) >= 2) =>
                   /\ Len(calls) = 4
                   /\ calls[4] = Call("approve_changes", TRUE)
                   /\ server_status = "to-sign"
       ELSE /\ \A k \in DOMAIN calls : calls[k].op # "approve_changes"
            /\ (pc = "done" /\ result = <<0>> /\ Len(calls) >= 2) =>
                   /\ Len(calls) = 3
                   /\ server_status = "to-review"

\* dev: a batch was committed and both review calls went through
C5_Witness ==
    /\ ENVIRONMENT = "dev"
    /\ pc = "done"
    /\ result = <<0>>
    /\ Made(2, "batch", TRUE)
    /\ Made(4, "approve_changes", TRUE)

\* the remote calls of a call that went through all its stages
FullCalls ==
    <<Call("get_records", TRUE), Call("batch", TRUE), Call("request_review", TRUE)>>
        \o (IF ENVIRONMENT = "dev" THEN <<Call("approve_changes", TRUE)>> ELSE <<>>)

\* C6: a finished call returned 0 or 1; it returned 0 exactly when
\* get_records succeeded and either the diff was empty or the batch was
\* committed and every review call of the environment succeeded.
C6_ResultCode ==
    pc = "done" =>
        /\ result \in {<<0>>, <<1>>}
        /\ result = <<0>> <=>
              \/ calls = <<Call("get_records", TRUE)>> /\ NoDiff
              \/ calls = FullCalls /\ ~NoDiff /\ committed # NotCommitted

\* dev: a call that returned 1 at its last stage
C6_Witness ==
    /\ pc = "done"
    /\ result = <<1>>
    /\ Len(calls) = 4

\* the previous call fetched, and applied whatever its diff held
Applied == last_run \in {"in sync", "synced", "review failed"}

\* C7 as stated: a second run on the same desired records, with no external
\* change in between, finds an empty diff, submits nothing and returns 0.
C7_Original ==
    (last_run # "none" /\ ~external /\ Made(1, "get_records", TRUE)) =>
        /\ NoDiff
        /\ submitted = <<>>
        /\ pc = "done"
        /\ result = <<0>>

\* C7: a second run on the same desired records, with no external change in
\* between, after a first run that fetched and either found an empty diff or
\* committed its batch, finds an empty diff once its own get_records has
\* succeeded: it submits nothing and returns 0.
C7_RoundTrip ==
    (Applied /\ ~external /\ Made(1, "get_records", TRUE)) =>
        /\ NoDiff
        /\ submitted = <<>>
        /\ pc = "done"
        /\ result = <<0>>

\* the second run after a run that created, updated or deleted something
C7_Witness ==
    /\ last_run = "synced"
    /\ ~external
    /\ pc = "done"
    /\ result = <<0>>
    /\ Len(source_records) = 2
    /\ calls = <<Call("get_records", TRUE)>>

\* C8: no payload handed to update_record has a last_modified field.
C8_UpdateSanitized ==
    \A k \in DOMAIN submitted :
        submitted[k].op = "update" => "last_modified" \notin DOMAIN submitted[k].data

\* an update was submitted for a record whose actual version carries a stamp
C8_Witness ==
    /\ Made(2, "batch", TRUE)
    /\ \E k \in DOMAIN submitted : submitted[k].op = "update"
    /\ \E k \in DOMAIN to_update : "last_modified" \in DOMAIN to_update[k][1]

(***************************************************************************)
(* Properties of get_item's identifier (under SpecId)                      *)
(***************************************************************************)
\* C9: the id is injective over (feature, model, version): no other triple
\* yields the id this triple yields.
C9_Injective ==
    item # <<>> =>
        \A t \in Triples : t # triple => get_item(t).id # item.id

(***************************************************************************)
(* Properties of the diff sync_collection computes                         *)
(***************************************************************************)
DistinctIds(s) == \A k \in DOMAIN s, m \in DOMAIN s : s[k].id = s[m].id => k = m

\* some field other than last_modified is missing on one side or differs
Differ(a, b) ==
    \E f \in (DOMAIN a \cup DOMAIN b) \ {"last_modified"} :
        \/ f \notin DOMAIN a
        \/ f \notin DOMAIN b
        \/ a[f] # b[f]

CreateIds == {source_records[to_create[k]].id : k \in DOMAIN to_create}
UpdateIds == {source_records[to_update[k][2]].id : k \in DOMAIN to_update}
DeleteIds == {to_delete[k].id : k \in DOMAIN to_delete}

BatchCalls == {k \in DOMAIN calls : calls[k].op = "batch"}
DiffSize == Len(to_create) + Len(to_update) + Len(to_delete)

\* what the batch is to be handed at position k: the creates, then the
\* updates, then the deletes, one per entry of the diff
ExpectedAt(k) ==
    IF k <= Len(to_create)
    THEN [op |-> "create", data |-> source_records[to_create[k]]]
    ELSE IF k <= Len(to_create) + Len(to_update)
    THEN [op |-> "update",
          data |-> Pop(source_records[to_update[k - Len(to_create)][2]],
                       "last_modified")]
    ELSE [op |-> "delete",
          id |-> to_delete[k - Len(to_create) - Len(to_update)].id]

\* C14: for a non-empty diff exactly one batch is opened; what it is handed
\* is, in order, one create per to_create record with the desired record,
\* one update per to_update pair with the desired record, one delete per
\* to_delete record with that record's id and nothing else; a batch that
\* was committed was handed all of them, and nothing else is ever submitted.
C14_BatchContents ==
    /\ Cardinality(BatchCalls) <= 1
    /\ (Made(1, "get_records", TRUE) /\ ~NoDiff /\ pc # "batch") =>
            Cardinality(BatchCalls) = 1
    /\ Len(submitted) <= DiffSize
    /\ \A k \in DOMAIN submitted : submitted[k] = ExpectedAt(k)
    /\ Made(2, "batch", TRUE) =>
          /\ Len(submitted) = DiffSize
          /\ \A k \in DOMAIN to_update :
                source_records[to_update[k][2]] = submitted[Len(to_create) + k].data

\* a committed batch with a create and a delete
C14_Witness ==
    /\ Made(2, "batch", TRUE)
    /\ Len(to_create) = 1
    /\ Len(to_delete) = 1
    /\ Len(submitted) = 2

CallOrder == <<"get_records", "batch", "request_review", "approve_changes">>

\* C16: within one call the remote operations happen at most once each and
\* in the order get_records, batch, request_review, approve_changes;
\* get_records is the first and is made exactly once; each later one is
\* made only after the one before it returned without error.
C16_CallOrder ==
    /\ Len(calls) <= Len(CallOrder)
    /\ \A k \in DOMAIN calls : calls[k].op = CallOrder[k]
    /\ \A k \in DOMAIN calls : k > 1 => calls[k - 1].ok
    /\ pc \in {"batch", "request_review", "approve_changes", "done"} =>
            Len(calls) >= 1
    /\ pc = "batch" => Len(calls) = 1
    /\ pc = "request_review" => Len(calls) = 2
    /\ pc = "approve_changes" => Len(calls) = 3

\* dev: all four remote operations were made, the last one failed
C16_Witness ==
    /\ Len(calls) = 4
    /\ ~calls[4].ok
    /\ Len(submitted) = 2
    /\ pc = "done"

\* C17: when a call returns 0 for desired records with pairwise distinct
\* ids, the collection holds exactly the desired records: the same ids,
\* and for each id the desired content, last_modified aside.
C17_StoreMatchesDesired ==
    (pc = "done" /\ result = <<0>> /\ DistinctIds(source_records)) =>
        {Pop(r, "last_modified") : r \in server_records}
            = {Pop(source_records[k], "last_modified") : k \in DOMAIN source_records}

\* a call that returned 0 after it created one record and updated another
C17_Witness ==
    /\ pc = "done"
    /\ result = <<0>>
    /\ DistinctIds(source_records)
    /\ Len(to_create) = 1
    /\ Len(to_update) = 1

\* C18: once a call has committed its batch and its review request has
\* failed, every later call with the same desired records, as long as no
\* other writer changes the collection, requests no review and no approval;
\* when its get_records succeeds it finds an empty diff and returns 0 after
\* that single remote call, and the collection stays unreviewed.
C18_ReviewNeverReissued ==
    review_owed =>
        /\ \A k \in DOMAIN calls :
              calls[k].op \notin {"request_review", "approve_changes"}
        /\ submitted = <<>>
        /\ Untouched
        /\ server_status = "work-in-progress"
        /\ Made(1, "get_records", TRUE) =>
              /\ NoDiff
              /\ Len(calls) = 1
              /\ pc = "done"
              /\ result = <<0>>

\* a second or later re-run after the failed review request has returned 0
C18_Witness ==
    /\ review_owed
    /\ last_run = "in sync"
    /\ pc = "done"
    /\ result = <<0>>
    /\ Made(1, "get_records", TRUE)

(***************************************************************************)
(* Properties of main() (under SpecMain)                                   *)
(***************************************************************************)
Invoked(stage) == \E k \in DOMAIN stages : stages[k] = stage
LoadingFinished ==
    Invoked("fetch_current_prompts") /\ main_pc \in {"sync_collection", "exit"}

\* C11: once fetch_current_prompts has finished, with records or with an
\* exception, the temporary directory clone_repo made is gone, and it is
\* gone whenever sync_collection is invoked.
C11_TempDirReleased ==
    /\ LoadingFinished => ~tmp_dir
    /\ Invoked("sync_collection") => ~tmp_dir

\* C12: no exception leaves main: when main has ended it has returned 0
\* or 1.
C12_NoException ==
    /\ raised = "none"
    /\ main_pc = "exit" => main_result \in {<<0>>, <<1>>}

Pipeline == <<"server_info", "clone_repo", "fetch_current_prompts", "sync_collection">>

\* C13: the stages run in the order connection check, acquisition, record
\* loading, sync; a run that ended before the last stage ended with result
\* 1 at its first failing stage, and main returns 0 only after all four
\* stages ran.
C13_Pipeline ==
    /\ Len(stages) <= Len(Pipeline)
    /\ stages = SubSeq(Pipeline, 1, Len(stages))
    /\ main_pc = "exit" =>
          /\ Len(stages) < Len(Pipeline) => main_result = <<1>>
          /\ main_result = <<0>> => stages = Pipeline

\* the .json file of a model
JsonOf(m) ==
    [feature |-> m.feature, version |-> m.version, stem |-> m.stem, suffix |-> ".json"]

\* C15: the records returned are exactly one per model that has a .json
\* file in its feature/version directory, and none for anything else.
C15_OneRecordPerJson ==
    (LoadingFinished /\ raised = "none") =>
        \A m \in Model :
            prompts[m] = IF JsonOf(m) \in repo.files THEN 1 ELSE 0

====
